---- MODULE Spec2Model ----
(***************************************************************************)
(* State-machine model of rcognita/controllers.py: the sampled CALF        *)
(* orchestrators CALFControllerExPost and CALFControllerPredictive, their  *)
(* fallback path invoke_safe_action, the diagnostics collector             *)
(* collect_critic_stats, their base class RLController, and the two CLF    *)
(* controllers used as fallback.                                           *)
(*                                                                         *)
(* Vectors are abstracted to integers (one channel).  The actor, the       *)
(* critic and the Clock live in modules that controllers.py only imports;  *)
(* their methods are modelled from their documented contract and are the   *)
(* definitions prefixed Actor, Critic and Clock below.  The numerical      *)
(* solvers are black boxes: an optimize_weights call receives its result   *)
(* (candidate weights and acceptance status) as an input of the sample.    *)
(*                                                                         *)
(* Spec drives the controller through compute_action_sampled with a        *)
(* configured setpoint and configured action bounds.  SpecBounds is the    *)
(* same run of a controller constructed without bounds, SpecSafeOnly the   *)
(* run of a controller constructed with safe_only=True, and SpecReset two  *)
(* short episodes with one reset() between them.  SpecRL is the run of a   *)
(* plain RLController and SpecSetpoint the run of a controller whose       *)
(* driver never names a setpoint.  SpecCLF drives a CLF controller of      *)
(* either class on its own (SpecCLFReset: for two episodes with its        *)
(* reset() between them), and SpecZeta evaluates its gradient _zeta at     *)
(* the points of a small grid.                                             *)
(***************************************************************************)
EXTENDS Integers, Sequences, FiniteSets, TLC

VARIABLES
    cfg,      \* construction-time configuration (variant, is_fixed_critic_weights,
              \* action_bounds, safe_only, safe_class), the episode's final time
              \* and whether the driver passes a setpoint
    critic,   \* the critic object (weights, status, r_prev, logs, clock)
    actor,    \* the actor object (weights, status, current action)
    safe,     \* actor.safe_controller (Controller3WRobotDisassembledCLF)
    ctrl,     \* the controller itself (clock, observation_target, action)
    now,      \* the time passed by the driver at its latest call
    hist,     \* record of the latest handler call: inputs, ordered calls, outcome
    episode   \* "first" until the driver calls reset(), "second" after

vars == <<cfg, critic, actor, safe, ctrl, now, hist, episode>>

---------------------------------------------------------------------------
(* Bounds of the model *)

MaxObs == 1
MaxW == 1
MaxTime == 4
MaxLog == 2
MaxEpisodeTime == 2
MaxTheta == 1
MaxCoord == 2
MaxRLTime == 6

(* Configuration values of the modelled run *)

time_start == 0
sampling_time == 2
safe_sampling_time == 3
critic_period == 3
controller_gain == 2
SafeLow == -1
SafeHigh == 1
\* the controller's own bounds are tighter than the safe controller's, so that
\* the wrapper does clip
CtrlLow == 0
CtrlHigh == 1
BufferSize == 1
action_init == 0

Observations == 0..MaxObs
\* the setpoints of the modelled runs: the origin and one offset
Targets == {<<0>>, <<1>>}
Weights == 0..MaxW
Decided == {"accepted", "rejected"}
Variants == {"ExPost", "Predictive"}
\* the two CLF fallback controllers: with the minimization over theta, and
\* the analytic one for the nonholonomic integrator
CLF == "Controller3WRobotDisassembledCLF"
NICLF == "Controller3WRobotNIDisassembledCLF"

---------------------------------------------------------------------------
(* Pure helpers *)

Min(a, b) == IF a <= b THEN a ELSE b

Max(a, b) == IF a >= b THEN a ELSE b

\* np.clip(x, low, high)
Clip(x, low, high) == Min(Max(x, low), high)

\* observation - observation_target: element-wise difference of two vectors
\* of the same dimension
Diff(observation, target) == observation - target[1]

\* the feedback law of the fallback controller, u = -controller_gain * z
SafeLaw(x) == (0 - controller_gain) * x

\* actor.running_objective(observation, action): quadratic stage cost
RunningObjective(observation, action) == observation * observation + action * action

\* critic.model with weights w evaluated at x
CriticModel(w, x) == w * x * x + x

\* actor.model with weights w: a weight container, whose output is its weights
\* (invoke_safe_action stores an action as the model's weights)
ActorModel(w, observation) == w

\* the world the handlers act on
World == [critic |-> critic, actor |-> actor, safe |-> safe, ctrl |-> ctrl,
          trace |-> <<>>, error |-> "none"]

Log(w, op, a, b) == [w EXCEPT !.trace = Append(@, [op |-> op, a |-> a, b |-> b])]

Ops(trace) == [i \in 1..Len(trace) |-> trace[i].op]

---------------------------------------------------------------------------
(* Clock: check_time is true exactly when the time has crossed a period   *)
(* boundary since the last true reply, and then remembers that time.       *)

ClockCheckTime(current_time, period, time) == time >= current_time + period

ClockAdvance(current_time, period, time) ==
    IF ClockCheckTime(current_time, period, time) THEN time ELSE current_time

\* reset: back to the construction-time origin
ClockReset(current_time) == time_start

---------------------------------------------------------------------------
(* Critic *)

\* oldest pair discarded on overflow
Push(buffer, x) ==
    IF Len(buffer) < BufferSize THEN Append(buffer, x) ELSE Append(Tail(buffer), x)

CriticUpdateBuffers(w, observation, action) ==
    Log([w EXCEPT !.critic.observation_buffer = Push(@, observation),
                  !.critic.action_buffer = Push(@, action),
                  !.critic.current_observation = observation],
        "critic.update_buffers", observation, action)

CriticUpdateTarget(w, target) ==
    Log([w EXCEPT !.critic.observation_target = target], "critic.update_target", 0, 0)

\* the solver's result: candidate weights and the verdict of the critic's test
CriticOptimizeWeights(w, weights, status) ==
    Log([w EXCEPT !.critic.optimized_weights = weights,
                  !.critic.weights_acceptance_status = status],
        "critic.optimize_weights", weights, 0)

\* first phase of the commit: the candidate becomes the model's weights
CriticUpdateWeights(w) ==
    Log([w EXCEPT !.critic.model_weights = w.critic.optimized_weights],
        "critic.update_weights", w.critic.optimized_weights, 0)

\* second phase: the candidate becomes the stored (cached) weights
CriticCacheWeights(w) ==
    Log([w EXCEPT !.critic.cache_weights = w.critic.optimized_weights],
        "critic.cache_weights", w.critic.optimized_weights, 0)

\* both phases at once, as RLController commits the critic's candidate
CriticUpdateAndCacheWeights(w) ==
    Log([w EXCEPT !.critic.model_weights = w.critic.optimized_weights,
                  !.critic.cache_weights = w.critic.optimized_weights],
        "critic.update_and_cache_weights", w.critic.optimized_weights, 0)

\* back to the last stored weights
CriticRestoreWeights(w) ==
    Log([w EXCEPT !.critic.model_weights = w.critic.cache_weights],
        "critic.restore_weights", w.critic.cache_weights, 0)

\* critic(observation, use_stored_weights=True)
CriticCall(c, x) == CriticModel(c.cache_weights, x)

---------------------------------------------------------------------------
(* Actor *)

ActorReceiveObservation(w, observation) ==
    Log([w EXCEPT !.actor.observation = observation],
        "actor.receive_observation", observation, 0)

ActorUpdateTarget(w, target) ==
    Log([w EXCEPT !.actor.observation_target = target], "actor.update_target", 0, 0)

ActorOptimizeWeights(w, weights, status) ==
    Log([w EXCEPT !.actor.optimized_weights = weights,
                  !.actor.weights_acceptance_status = status],
        "actor.optimize_weights", weights, 0)

\* promotes candidate -> cached
ActorUpdateAndCacheWeights(w) ==
    Log([w EXCEPT !.actor.model_weights = w.actor.optimized_weights,
                  !.actor.cache_weights = w.actor.optimized_weights],
        "actor.update_and_cache_weights", w.actor.optimized_weights, 0)

\* actor.model.update_and_cache_weights(weights)
ActorModelUpdateAndCacheWeights(w, weights) ==
    Log([w EXCEPT !.actor.model_weights = weights,
                  !.actor.cache_weights = weights],
        "actor.model.update_and_cache_weights", weights, 0)

\* synthesizes the action from the cached weights and the stored observation
ActorUpdateAction(w) ==
    LET action == ActorModel(w.actor.cache_weights, w.actor.observation)
    IN  Log([w EXCEPT !.actor.action = action, !.actor.action_source = "update_action"],
            "actor.update_action", action, 0)

ActorSetAction(w, action) ==
    Log([w EXCEPT !.actor.action = action, !.actor.action_source = "set_action"],
        "actor.set_action", action, 0)

---------------------------------------------------------------------------
(* actor.safe_controller: Controller3WRobotDisassembledCLF, or             *)
(* Controller3WRobotNIDisassembledCLF (cfg.safe_class)                     *)

\* the value compute_action returns: the wrapper's clipped self.action
SafeActionFor(x) == Clip(SafeLaw(x), SafeLow, SafeHigh)

\* what scipy's minimize hands back: the last iterate x and whether the
\* iteration converged; the minimizer of Fc is taken to be theta = 0
Converged == [x |-> 0, success |-> TRUE]

ThetaResults == {Converged} \cup [x : 0..MaxTheta, success : {FALSE}]

\* _minimizer_theta: minimize(...).x, whatever the result's success flag
minimizer_theta(result) == result.x

\* _Fc at theta: the potential plus the penalty on z = eta - kappa(xNI, theta)
Fc(x, theta) == x * x + (x - theta) * (x - theta)

\* the potential that Controller3WRobotNIDisassembledCLF.compute_LF evaluates
LF_value(x) == x * x

\* the raw action of compute_action: -controller_gain * z at theta_star for the
\* controller with the minimization, the analytic law for the other
CLFAction(x, result) ==
    IF cfg.safe_class = CLF THEN SafeLaw(x - minimizer_theta(result)) ELSE SafeLaw(x)

\* the certificate appended to Ls by both controllers
CLFComputeLF_logging(w, x, result) ==
    [w EXCEPT !.safe.Ls = Append(@, LF_value(x))]

\* compute_LF: the certificate at the observation; the analytic controller
\* appends it to its log Ls
CLFComputeLF(w, x, result) ==
    IF cfg.safe_class = CLF
    THEN w
    ELSE [w EXCEPT !.safe.Ls = Append(@, LF_value(x))]

\* compute_action under @apply_action_bounds: action_old keeps the law's raw
\* value, self.action the clipped one; the analytic controller calls
\* compute_LF before it returns
CLFComputeAction(w, x, result) ==
    LET action == CLFAction(x, result)
        w1 == [w EXCEPT !.safe.action_old = action]
        w2 == IF cfg.safe_class = CLF THEN w1 ELSE CLFComputeLF(w1, x, result)
        w3 == [w2 EXCEPT !.safe.action = Clip(action, SafeLow, SafeHigh)]
    IN  Log(w3, "safe_controller.compute_action", x, w3.safe.action)

\* compute_action_sampled: the controller's own clock; at a sampling instant
\* compute_action(observation), whose returned (clipped) value is then stored
\* in action_old (the analytic controller also appends the time to times);
\* otherwise action_old is returned
CLFComputeActionSampled(w, time, observation, result) ==
    LET is_time_for_new_sample == ClockCheckTime(w.safe.clock, safe_sampling_time, time)
        w1 == [w EXCEPT !.safe.clock = ClockAdvance(@, safe_sampling_time, time)]
        w2 == CLFComputeAction(w1, observation, result)
        w3 == IF cfg.safe_class = CLF THEN w2
              ELSE [w2 EXCEPT !.safe.times = Append(@, time)]
        w4 == [w3 EXCEPT !.safe.action_old = w3.safe.action]
    IN  IF is_time_for_new_sample
        THEN [w |-> w4, returned |-> w4.safe.action_old,
              sampled |-> TRUE, is_critic_update |-> FALSE]
        ELSE [w |-> w1, returned |-> w1.safe.action_old,
              sampled |-> FALSE, is_critic_update |-> FALSE]

\* reset() of either class: action_old = zeros, and in the analytic class
\* controller_clock = time_start, an attribute compute_action_sampled never
\* reads; self.clock, Ls and times are not touched
CLFReset(w) ==
    IF cfg.safe_class = CLF
    THEN [w EXCEPT !.safe.action_old = 0]
    ELSE [w EXCEPT !.safe.controller_clock = time_start,
                   !.safe.action_old = 0]

\* the safe controller as the orchestrators use it: its minimization converges
SafeComputeAction(w, x) == CLFComputeAction(w, x, Converged)

SafeComputeActionSampled(w, time, observation) ==
    CLFComputeActionSampled(w, time, observation, Converged)

---------------------------------------------------------------------------
(* The gradient _zeta of the two CLF controllers, followed for the         *)
(* divisions it evaluates and the branch it returns.  An observation is a  *)
(* planar position with integer coordinates and an orientation of q        *)
(* quarter turns; a real a + b * (pi / 2) is kept exactly as <<a, b>>.     *)

QuarterTurns == {-1, 0, 1}

Points == [x : (0 - MaxCoord)..MaxCoord, y : (0 - MaxCoord)..MaxCoord, q : QuarterTurns]

Cos(q) == IF q = 0 THEN 1 ELSE 0

Sin(q) == q

IsZero(p) == p[1] = 0 /\ p[2] = 0

Abs(n) == IF n < 0 THEN 0 - n ELSE n

\* _Cart2NH: xNI[0] = angle, xNI[1] = xc cos + yc sin,
\* xNI[2] = -2 (yc cos - xc sin) - angle (xc cos + yc sin)
Cart2NH(o) ==
    LET x1 == o.x * Cos(o.q) + o.y * Sin(o.q)
    IN  [x0 |-> <<0, o.q>>,
         x1 |-> x1,
         x2 |-> <<(0 - 2) * (o.y * Cos(o.q) - o.x * Sin(o.q)), (0 - o.q) * x1>>]

\* Controller3WRobotNIDisassembledCLF._zeta: nablaL and nablaF are both
\* computed before the test that picks one of them.  nablaL divides by
\* sigma^3, by sqrt(xNI[0]^2 + xNI[1]^2)^3 and by sqrt|xNI[2]|, nablaF by
\* sigma_tilde^3 with theta = 0, i.e. (xNI[0] + sqrt|xNI[2]|)^3, which with
\* xNI[0] a multiple of pi / 2 vanishes only when both terms do
ZetaNI(xNI) ==
    LET r_zero == IsZero(xNI.x0) /\ xNI.x1 = 0
        x2_zero == IsZero(xNI.x2)
        sigma_zero == r_zero /\ x2_zero
        sigma_tilde_zero == IsZero(xNI.x0) /\ x2_zero
        nablaL_divides_by_zero == sigma_zero \/ r_zero \/ x2_zero
        nablaF_divides_by_zero == sigma_tilde_zero
        limit == IsZero(xNI.x0) /\ xNI.x1 = 0
    IN  [branch |-> IF limit THEN "nablaF" ELSE "nablaL",
         division_by_zero |-> nablaL_divides_by_zero \/ nablaF_divides_by_zero,
         finite |-> IF limit THEN ~nablaF_divides_by_zero
                             ELSE ~nablaL_divides_by_zero]

\* Controller3WRobotDisassembledCLF._zeta at theta = t quarter turns: one
\* expression without any test, dividing by sigma_tilde^3 where sigma_tilde =
\* xNI[0] cos(theta) + xNI[1] sin(theta) + sqrt|xNI[2]|
ZetaCLF(xNI, t) ==
    LET A == xNI.x1 * Sin(t)
        sigma_tilde_zero ==
            IF t = 0
            THEN IsZero(xNI.x0) /\ IsZero(xNI.x2)
            ELSE A <= 0 /\ xNI.x2[2] = 0 /\ Abs(xNI.x2[1]) = A * A
    IN  [branch |-> "generic",
         division_by_zero |-> sigma_tilde_zero,
         finite |-> ~sigma_tilde_zero]

zeta(observation, t) ==
    IF cfg.safe_class = CLF
    THEN ZetaCLF(Cart2NH(observation), t)
    ELSE ZetaNI(Cart2NH(observation))

---------------------------------------------------------------------------
(* CALFControllerExPost.invoke_safe_action *)

CriticAddRPrev(w, observation, action) ==
    Log([w EXCEPT !.critic.r_prev = @ + RunningObjective(observation, action)],
        "critic.r_prev+=", observation, action)

\* invoke_safe_action that computes the fallback action and never stores it
invoke_safe_action_no_set(w, observation) ==
    LET w0 == Log(w, "invoke_safe_action", observation, 0)
        w1 == CriticRestoreWeights(w0)
        w2 == SafeComputeAction(w1, Diff(observation, w1.ctrl.observation_target))
        action == w2.safe.action
        w4 == ActorModelUpdateAndCacheWeights(w2, action)
    IN  CriticAddRPrev(w4, observation, action)

\* invoke_safe_action that leaves the actor model's weights alone
invoke_safe_action_keep_actor(w, observation) ==
    LET w0 == Log(w, "invoke_safe_action", observation, 0)
        w1 == CriticRestoreWeights(w0)
        w2 == SafeComputeAction(w1, Diff(observation, w1.ctrl.observation_target))
        action == w2.safe.action
        w3 == ActorSetAction(w2, action)
    IN  CriticAddRPrev(w3, observation, action)

\* invoke_safe_action that feeds the raw observation to the fallback law
invoke_safe_action_no_target(w, observation) ==
    LET w0 == Log(w, "invoke_safe_action", observation, 0)
        w1 == CriticRestoreWeights(w0)
        w2 == SafeComputeAction(w1, observation)
        action == w2.safe.action
        w3 == ActorSetAction(w2, action)
        w4 == ActorModelUpdateAndCacheWeights(w3, action)
    IN  CriticAddRPrev(w4, observation, action)

\* observation - self.observation_target raises when the target is the empty
\* default [] (the operands have different lengths), after restore_weights
invoke_safe_action(w, observation) ==
    LET w0 == Log(w, "invoke_safe_action", observation, 0)
        w1 == CriticRestoreWeights(w0)
    IN  IF w1.ctrl.observation_target = <<>>
        THEN [w1 EXCEPT !.error = "ValueError"]
        ELSE LET w2 == SafeComputeAction(w1, Diff(observation, w1.ctrl.observation_target))
                 action == w2.safe.action
                 w3 == ActorSetAction(w2, action)
                 w4 == ActorModelUpdateAndCacheWeights(w3, action)
             IN  CriticAddRPrev(w4, observation, action)

---------------------------------------------------------------------------
(* The orchestrators.  critic_result and actor_result are what the two     *)
(* optimize_weights calls of the sample produce: [weights, status].        *)
(* is_critic_update is a parameter of both compute_action methods that     *)
(* neither reads.                                                          *)

ReadCriticStatus(w) ==
    Log(w, "read critic.weights_acceptance_status",
        IF w.critic.weights_acceptance_status = "accepted" THEN 1 ELSE 0, 0)

ReadActorStatus(w) ==
    Log(w, "read actor.weights_acceptance_status",
        IF w.actor.weights_acceptance_status = "accepted" THEN 1 ELSE 0, 0)

\* the baseline accumulated instead of assigned
CriticSetRPrev_accumulate(w, observation) ==
    Log([w EXCEPT !.critic.r_prev = @ + RunningObjective(observation, w.actor.action)],
        "critic.r_prev=", observation, w.actor.action)

\* critic.r_prev = actor.running_objective(observation, actor.action)
CriticSetRPrev(w, observation) ==
    Log([w EXCEPT !.critic.r_prev = RunningObjective(observation, w.actor.action)],
        "critic.r_prev=", observation, w.actor.action)

CriticSetObservationLastGood(w, observation) ==
    Log([w EXCEPT !.critic.observation_last_good = observation],
        "critic.observation_last_good=", observation, 0)

\* compute_action with the critic step gated by is_critic_update, as in
\* RLController.compute_action
ExPostComputeAction_gated(w, observation, is_critic_update, observation_target, critic_result, actor_result) ==
    LET w1 == CriticUpdateBuffers(w, observation, w.actor.action)
        w2 == ActorReceiveObservation(w1, observation)
        w3 == ActorUpdateTarget(w2, observation_target)
        w4 == CriticUpdateTarget(w3, observation_target)
        w5 == IF is_critic_update
              THEN CriticOptimizeWeights(w4, critic_result.weights, critic_result.status)
              ELSE w4
        w6 == ReadCriticStatus(w5)
        critic_weights_accepted == w5.critic.weights_acceptance_status = "accepted"
    IN  IF critic_weights_accepted
        THEN LET w7 == CriticUpdateWeights(w6)
                 w8 == invoke_safe_action(w7, observation)
                 w9 == ActorOptimizeWeights(w8, actor_result.weights, actor_result.status)
                 w10 == ReadActorStatus(w9)
                 actor_weights_accepted ==
                     w9.actor.weights_acceptance_status = "accepted"
             IN  IF actor_weights_accepted
                 THEN LET w11 == ActorUpdateAndCacheWeights(w10)
                          w12 == ActorUpdateAction(w11)
                          w13 == CriticSetObservationLastGood(w12, observation)
                          w14 == CriticCacheWeights(w13)
                      IN  CriticSetRPrev(w14, observation)
                 ELSE invoke_safe_action(w10, observation)
        ELSE invoke_safe_action(w6, observation)

\* compute_action that marks the observation as good as soon as the critic is
\* accepted, whatever the actor's test says
ExPostComputeAction_early_good(w, observation, is_critic_update, observation_target, critic_result, actor_result) ==
    LET w1 == CriticUpdateBuffers(w, observation, w.actor.action)
        w2 == ActorReceiveObservation(w1, observation)
        w3 == ActorUpdateTarget(w2, observation_target)
        w4 == CriticUpdateTarget(w3, observation_target)
        w5 == CriticOptimizeWeights(w4, critic_result.weights, critic_result.status)
        w6 == ReadCriticStatus(w5)
        critic_weights_accepted == w5.critic.weights_acceptance_status = "accepted"
    IN  IF critic_weights_accepted
        THEN LET w7 == CriticUpdateWeights(CriticSetObservationLastGood(w6, observation))
                 w8 == invoke_safe_action(w7, observation)
                 w9 == ActorOptimizeWeights(w8, actor_result.weights, actor_result.status)
                 w10 == ReadActorStatus(w9)
                 actor_weights_accepted ==
                     w9.actor.weights_acceptance_status = "accepted"
             IN  IF w8.error # "none"
                 THEN w8
                 ELSE IF actor_weights_accepted
                 THEN LET w11 == ActorUpdateAndCacheWeights(w10)
                          w12 == ActorUpdateAction(w11)
                          w13 == CriticSetObservationLastGood(w12, observation)
                          w14 == CriticCacheWeights(w13)
                      IN  CriticSetRPrev(w14, observation)
                 ELSE invoke_safe_action(w10, observation)
        ELSE invoke_safe_action(w6, observation)

\* CALFControllerExPost.compute_action
ExPostComputeAction(w, observation, is_critic_update, observation_target, critic_result, actor_result) ==
    LET w1 == CriticUpdateBuffers(w, observation, w.actor.action)
        w2 == ActorReceiveObservation(w1, observation)
        w3 == ActorUpdateTarget(w2, observation_target)
        w4 == CriticUpdateTarget(w3, observation_target)
        w5 == CriticOptimizeWeights(w4, critic_result.weights, critic_result.status)
        w6 == ReadCriticStatus(w5)
        critic_weights_accepted == w5.critic.weights_acceptance_status = "accepted"
    IN  IF critic_weights_accepted
        THEN LET w7 == CriticUpdateWeights(w6)
                 w8 == invoke_safe_action(w7, observation)
                 w9 == ActorOptimizeWeights(w8, actor_result.weights, actor_result.status)
                 w10 == ReadActorStatus(w9)
                 actor_weights_accepted ==
                     w9.actor.weights_acceptance_status = "accepted"
             IN  IF w8.error # "none"
                 THEN w8
                 ELSE IF actor_weights_accepted
                 THEN LET w11 == ActorUpdateAndCacheWeights(w10)
                          w12 == ActorUpdateAction(w11)
                          w13 == CriticSetObservationLastGood(w12, observation)
                          w14 == CriticCacheWeights(w13)
                      IN  CriticSetRPrev(w14, observation)
                 ELSE invoke_safe_action(w10, observation)
        ELSE invoke_safe_action(w6, observation)

\* the backfill appended to the log instead of written over its last entry
BackfillCALF_append(w, value) ==
    IF w.critic.CALFs # <<>>
    THEN Log([w EXCEPT !.critic.CALFs = Append(@, value)], "critic.CALFs[-1]=", value, 0)
    ELSE w

\* self.critic.CALFs[-1] = value, when the log is not empty
BackfillCALF(w, value) ==
    IF w.critic.CALFs # <<>>
    THEN Log([w EXCEPT !.critic.CALFs[Len(w.critic.CALFs)] = value],
             "critic.CALFs[-1]=", value, 0)
    ELSE w

\* the head that marks only the critic and leaves the actor status accepted
PredictiveMarkPrevious_critic_only(w, observation, observation_target) ==
    IF w.actor.weights_acceptance_status = "accepted"
    THEN LET w1 == CriticSetObservationLastGood(w, observation)
             w2 == Log([w1 EXCEPT !.critic.weights_acceptance_status = "rejected"],
                       "critic.weights_acceptance_status=rejected", 0, 0)
         IN  BackfillCALF(w2, CriticCall(w2.critic,
                 Diff(w2.critic.observation_last_good, observation_target)))
    ELSE w

\* the head that backfills the log and leaves both statuses as they were
PredictiveMarkPrevious_unmarked(w, observation, observation_target) ==
    IF w.actor.weights_acceptance_status = "accepted"
    THEN LET w1 == CriticSetObservationLastGood(w, observation)
         IN  BackfillCALF(w1, CriticCall(w1.critic,
                 Diff(w1.critic.observation_last_good, observation_target)))
    ELSE w

\* the head of CALFControllerPredictive.compute_action: the previous sample's
\* weights were accepted
PredictiveMarkPrevious(w, observation, observation_target) ==
    IF w.actor.weights_acceptance_status = "accepted"
    THEN LET w1 == CriticSetObservationLastGood(w, observation)
             w2 == Log([w1 EXCEPT !.critic.weights_acceptance_status = "rejected"],
                       "critic.weights_acceptance_status=rejected", 0, 0)
             w3 == Log([w2 EXCEPT !.actor.weights_acceptance_status = "rejected"],
                       "actor.weights_acceptance_status=rejected", 0, 0)
         IN  BackfillCALF(w3, CriticCall(w3.critic,
                 Diff(w3.critic.observation_last_good, observation_target)))
    ELSE w

\* compute_action that optimizes the actor before the provisional fallback call
PredictiveComputeAction_reordered(w, observation, is_critic_update, observation_target, critic_result, actor_result) ==
    LET w1 == CriticUpdateBuffers(w, observation, w.actor.action)
        w2 == ActorUpdateTarget(w1, observation_target)
        w3 == CriticUpdateTarget(w2, observation_target)
        w4 == PredictiveMarkPrevious(w3, observation, observation_target)
        w5 == ActorReceiveObservation(w4, observation)
        w6 == CriticOptimizeWeights(w5, critic_result.weights, critic_result.status)
        w7 == ReadCriticStatus(w6)
    IN  IF w6.critic.weights_acceptance_status = "accepted"
        THEN LET w8 == CriticUpdateWeights(w7)
                 w9 == ActorOptimizeWeights(w8, actor_result.weights, actor_result.status)
                 w10 == invoke_safe_action(w9, observation)
                 w11 == ReadActorStatus(w10)
             IN  IF w10.actor.weights_acceptance_status = "accepted"
                 THEN LET w12 == ActorUpdateAndCacheWeights(w11)
                          w13 == ActorUpdateAction(w12)
                      IN  CriticCacheWeights(w13)
                 ELSE invoke_safe_action(w11, observation)
        ELSE invoke_safe_action(w7, observation)

\* compute_action that reassigns the baseline after a fully accepted sample,
\* as CALFControllerExPost.compute_action does
PredictiveComputeAction_reassigning(w, observation, is_critic_update, observation_target, critic_result, actor_result) ==
    LET w1 == CriticUpdateBuffers(w, observation, w.actor.action)
        w2 == ActorUpdateTarget(w1, observation_target)
        w3 == CriticUpdateTarget(w2, observation_target)
        w4 == PredictiveMarkPrevious(w3, observation, observation_target)
        w5 == ActorReceiveObservation(w4, observation)
        w6 == CriticOptimizeWeights(w5, critic_result.weights, critic_result.status)
        w7 == ReadCriticStatus(w6)
    IN  IF w6.critic.weights_acceptance_status = "accepted"
        THEN LET w8 == CriticUpdateWeights(w7)
                 w9 == invoke_safe_action(w8, observation)
                 w10 == ActorOptimizeWeights(w9, actor_result.weights, actor_result.status)
                 w11 == ReadActorStatus(w10)
             IN  IF w9.error # "none"
                 THEN w9
                 ELSE IF w10.actor.weights_acceptance_status = "accepted"
                 THEN LET w12 == ActorUpdateAndCacheWeights(w11)
                          w13 == ActorUpdateAction(w12)
                      IN  CriticSetRPrev(CriticCacheWeights(w13), observation)
                 ELSE invoke_safe_action(w11, observation)
        ELSE invoke_safe_action(w7, observation)

\* CALFControllerPredictive.compute_action
PredictiveComputeAction(w, observation, is_critic_update, observation_target, critic_result, actor_result) ==
    LET w1 == CriticUpdateBuffers(w, observation, w.actor.action)
        w2 == ActorUpdateTarget(w1, observation_target)
        w3 == CriticUpdateTarget(w2, observation_target)
        w4 == PredictiveMarkPrevious(w3, observation, observation_target)
        w5 == ActorReceiveObservation(w4, observation)
        w6 == CriticOptimizeWeights(w5, critic_result.weights, critic_result.status)
        w7 == ReadCriticStatus(w6)
    IN  IF w6.critic.weights_acceptance_status = "accepted"
        THEN LET w8 == CriticUpdateWeights(w7)
                 w9 == invoke_safe_action(w8, observation)
                 w10 == ActorOptimizeWeights(w9, actor_result.weights, actor_result.status)
                 w11 == ReadActorStatus(w10)
             IN  IF w9.error # "none"
                 THEN w9
                 ELSE IF w10.actor.weights_acceptance_status = "accepted"
                 THEN LET w12 == ActorUpdateAndCacheWeights(w11)
                          w13 == ActorUpdateAction(w12)
                      IN  CriticCacheWeights(w13)
                 ELSE invoke_safe_action(w11, observation)
        ELSE invoke_safe_action(w7, observation)

\* the method's result stored and returned without clipping
apply_action_bounds_unclipped(w, action) ==
    [w EXCEPT !.ctrl.action = action]

\* apply_action_bounds: self.action = the method's result, clipped unless
\* action_bounds is []; with action_bounds None the test `None != []` passes
\* and indexing None raises after self.action was assigned
apply_action_bounds(w, action) ==
    IF cfg.action_bounds = "empty"
    THEN [w EXCEPT !.ctrl.action = action]
    ELSE IF cfg.action_bounds = "None"
    THEN [w EXCEPT !.ctrl.action = action, !.error = "TypeError"]
    ELSE [w EXCEPT !.ctrl.action = Clip(action, CtrlLow, CtrlHigh)]

---------------------------------------------------------------------------
(* RLController.compute_action, the wrapper of apply_action_bounds         *)
(* included.  Neither acceptance status is read: both candidates are       *)
(* committed as produced.                                                  *)

\* the critic step taken in every sample, whatever is_critic_update says
RLComputeAction_ungated(w, observation, is_critic_update, observation_target, critic_result, actor_result) ==
    LET w1 == CriticUpdateBuffers(w, observation, w.actor.action)
        w2 == ActorReceiveObservation(w1, observation)
        w3 == ActorUpdateTarget(w2, observation_target)
        w4 == CriticUpdateTarget(w3, observation_target)
        w5 == CriticOptimizeWeights(w4, critic_result.weights, critic_result.status)
        w6 == CriticUpdateAndCacheWeights(w5)
        w7 == ActorOptimizeWeights(w6, actor_result.weights, actor_result.status)
        w8 == ActorUpdateAndCacheWeights(w7)
        w9 == ActorUpdateAction(w8)
    IN  apply_action_bounds(w9, w9.actor.action)

\* the action synthesized before the actor's candidate is committed
RLComputeAction_stale(w, observation, is_critic_update, observation_target, critic_result, actor_result) ==
    LET w1 == CriticUpdateBuffers(w, observation, w.actor.action)
        w2 == ActorReceiveObservation(w1, observation)
        w3 == ActorUpdateTarget(w2, observation_target)
        w4 == CriticUpdateTarget(w3, observation_target)
        w5 == IF is_critic_update
              THEN CriticOptimizeWeights(w4, critic_result.weights, critic_result.status)
              ELSE w4
        w6 == IF is_critic_update THEN CriticUpdateAndCacheWeights(w5) ELSE w5
        w7 == ActorOptimizeWeights(w6, actor_result.weights, actor_result.status)
        w8 == ActorUpdateAction(w7)
        w9 == ActorUpdateAndCacheWeights(w8)
    IN  apply_action_bounds(w9, w9.actor.action)

RLComputeAction(w, observation, is_critic_update, observation_target, critic_result, actor_result) ==
    LET w1 == CriticUpdateBuffers(w, observation, w.actor.action)
        w2 == ActorReceiveObservation(w1, observation)
        w3 == ActorUpdateTarget(w2, observation_target)
        w4 == CriticUpdateTarget(w3, observation_target)
        w5 == IF is_critic_update
              THEN CriticOptimizeWeights(w4, critic_result.weights, critic_result.status)
              ELSE w4
        w6 == IF is_critic_update THEN CriticUpdateAndCacheWeights(w5) ELSE w5
        w7 == ActorOptimizeWeights(w6, actor_result.weights, actor_result.status)
        w8 == ActorUpdateAndCacheWeights(w7)
        w9 == ActorUpdateAction(w8)
    IN  apply_action_bounds(w9, w9.actor.action)

\* the compute_action the controller was constructed with
compute_action(w, observation, is_critic_update, observation_target, critic_result, actor_result) ==
    IF cfg.variant = "ExPost"
    THEN ExPostComputeAction(w, observation, is_critic_update, observation_target,
                             critic_result, actor_result)
    ELSE IF cfg.variant = "Predictive"
    THEN PredictiveComputeAction(w, observation, is_critic_update, observation_target,
                                 critic_result, actor_result)
    ELSE RLComputeAction(w, observation, is_critic_update, observation_target,
                         critic_result, actor_result)

-------------------------------------------------------------------------------------------------------------------------------------------------
(* State after construction *)

Objects ==
    /\ critic = [model_weights |-> 0, cache_weights |-> 0, optimized_weights |-> 0,
                 weights_acceptance_status |-> "pending",
                 r_prev |-> 0, observation_last_good |-> 0,
                 observation_buffer |-> <<>>, action_buffer |-> <<>>,
                 current_observation |-> 0, observation_target |-> <<>>,
                 CALFs |-> <<>>, clock |-> time_start]
    /\ actor = [model_weights |-> 0, cache_weights |-> 0, optimized_weights |-> 0,
                weights_acceptance_status |-> "pending",
                action |-> action_init, action_old |-> action_init,
                action_source |-> "init",
                observation |-> 0, observation_target |-> <<>>]
    /\ safe = [action |-> 0, action_old |-> 0, clock |-> time_start,
               controller_clock |-> time_start,
               Ls |-> <<>>, times |-> <<>>]
    /\ ctrl = [clock |-> time_start, observation_target |-> <<>>, action |-> action_init]
    /\ now = time_start
    /\ episode = "first"

Constructed ==
    /\ Objects
    /\ hist = [op |-> "init", sampled |-> FALSE, is_critic_update |-> FALSE,
               observation |-> 0, trace |-> <<>>, returned |-> 0, error |-> "none",
               minimizer |-> Converged]

\* a learning controller with configured bounds, run for one episode
Init ==
    /\ cfg \in [variant : Variants, is_fixed_critic_weights : BOOLEAN,
                 action_bounds : {"array"}, safe_only : {FALSE},
                 time_final : {MaxTime},
                 safe_class : {CLF}, setpoint : {"given"}]
    /\ Constructed

\* a learning controller constructed without bounds: the default None, or []
InitBounds ==
    /\ cfg \in [variant : Variants, is_fixed_critic_weights : {FALSE},
                 action_bounds : {"None", "empty"}, safe_only : {FALSE},
                 time_final : {MaxTime},
                 safe_class : {CLF}, setpoint : {"given"}]
    /\ Constructed

\* a controller constructed with safe_only=True
InitSafeOnly ==
    /\ cfg \in [variant : Variants, is_fixed_critic_weights : {FALSE},
                 action_bounds : {"array"}, safe_only : {TRUE},
                 time_final : {MaxTime},
                 safe_class : {CLF}, setpoint : {"given"}]
    /\ Constructed

\* a CLF fallback controller of either class, driven on its own
InitCLF ==
    /\ cfg \in [variant : {"ExPost"}, is_fixed_critic_weights : {FALSE},
                 action_bounds : {"array"}, safe_only : {FALSE},
                 time_final : {MaxTime},
                 safe_class : {CLF, NICLF}, setpoint : {"given"}]
    /\ Constructed

\* the gradient of either CLF controller, about to be evaluated at a point
InitZeta ==
    /\ cfg \in [variant : {"ExPost"}, is_fixed_critic_weights : {FALSE},
                 action_bounds : {"array"}, safe_only : {FALSE},
                 time_final : {MaxTime},
                 safe_class : {CLF, NICLF}, setpoint : {"given"}]
    /\ Objects
    /\ hist \in [op : {"init"}, observation : Points, theta : QuarterTurns,
                  zeta : {[branch |-> "none", division_by_zero |-> FALSE,
                           finite |-> TRUE]}]

\* a learning controller run for two short episodes with a reset() between
InitReset ==
    /\ cfg \in [variant : Variants, is_fixed_critic_weights : BOOLEAN,
                 action_bounds : {"array"}, safe_only : {FALSE},
                 time_final : {MaxEpisodeTime},
                 safe_class : {CLF}, setpoint : {"given"}]
    /\ Constructed

\* an RLController with configured bounds, run for one episode
InitRL ==
    /\ cfg \in [variant : {"RL"}, is_fixed_critic_weights : BOOLEAN,
                 action_bounds : {"array"}, safe_only : {FALSE},
                 time_final : {MaxRLTime},
                 safe_class : {CLF}, setpoint : {"given"}]
    /\ Constructed

\* a learning controller of any class whose caller never names a setpoint
InitSetpoint ==
    /\ cfg \in [variant : Variants \cup {"RL"}, is_fixed_critic_weights : {FALSE},
                 action_bounds : {"array"}, safe_only : {FALSE},
                 time_final : {MaxTime},
                 safe_class : {CLF}, setpoint : {"default"}]
    /\ Constructed

---------------------------------------------------------------------------
(* Controller.compute_action_sampled, called by the driver at a time that  *)
(* never decreases                                                         *)

NoResult == [weights |-> 0, status |-> "rejected"]

Results == [weights : Weights, status : Decided]

\* the critic's clock consulted only at a sampling instant of the controller
compute_action_sampled_short_circuit(time, observation, observation_target, critic_result, actor_result) ==
    LET w0 == [World EXCEPT !.ctrl.observation_target = observation_target]
        is_time_for_new_sample == ClockCheckTime(w0.ctrl.clock, sampling_time, time)
        w1 == [w0 EXCEPT !.ctrl.clock = ClockAdvance(@, sampling_time, time)]
        is_time_for_critic_update ==
            is_time_for_new_sample /\ ClockCheckTime(w1.critic.clock, critic_period, time)
        w2 == IF is_time_for_new_sample
              THEN [w1 EXCEPT !.critic.clock = ClockAdvance(@, critic_period, time)]
              ELSE w1
        is_critic_update == is_time_for_critic_update /\ ~cfg.is_fixed_critic_weights
        w3 == IF is_time_for_new_sample
              THEN compute_action(w2, observation, is_critic_update,
                                  observation_target, critic_result, actor_result)
              ELSE w2
        w4 == apply_action_bounds(w3, w3.actor.action)
    IN  [w |-> w4, returned |-> w4.ctrl.action,
         sampled |-> is_time_for_new_sample,
         is_critic_update |-> is_critic_update]

\* compute_action run when the critic's clock fires instead of the controller's
compute_action_sampled_critic_clock(time, observation, observation_target, critic_result, actor_result) ==
    LET w0 == [World EXCEPT !.ctrl.observation_target = observation_target]
        is_time_for_new_sample == ClockCheckTime(w0.ctrl.clock, sampling_time, time)
        w1 == [w0 EXCEPT !.ctrl.clock = ClockAdvance(@, sampling_time, time)]
        is_time_for_critic_update == ClockCheckTime(w1.critic.clock, critic_period, time)
        w2 == [w1 EXCEPT !.critic.clock = ClockAdvance(@, critic_period, time)]
        is_critic_update == is_time_for_critic_update /\ ~cfg.is_fixed_critic_weights
        w3 == IF is_time_for_critic_update
              THEN compute_action(w2, observation, is_critic_update,
                                  observation_target, critic_result, actor_result)
              ELSE w2
        w4 == apply_action_bounds(w3, w3.actor.action)
    IN  [w |-> w4, returned |-> w4.ctrl.action,
         sampled |-> is_time_for_new_sample,
         is_critic_update |-> is_critic_update]

\* compute_action run on every call, whatever the controller clock reports
compute_action_sampled_always(time, observation, observation_target, critic_result, actor_result) ==
    LET w0 == [World EXCEPT !.ctrl.observation_target = observation_target]
        is_time_for_new_sample == ClockCheckTime(w0.ctrl.clock, sampling_time, time)
        w1 == [w0 EXCEPT !.ctrl.clock = ClockAdvance(@, sampling_time, time)]
        is_time_for_critic_update == ClockCheckTime(w1.critic.clock, critic_period, time)
        w2 == [w1 EXCEPT !.critic.clock = ClockAdvance(@, critic_period, time)]
        is_critic_update == is_time_for_critic_update /\ ~cfg.is_fixed_critic_weights
        w3 == compute_action(w2, observation, is_critic_update,
                             observation_target, critic_result, actor_result)
        w4 == apply_action_bounds(w3, w3.actor.action)
    IN  [w |-> w4, returned |-> w4.ctrl.action,
         sampled |-> is_time_for_new_sample,
         is_critic_update |-> is_critic_update]

\* the state compute_action_sampled leaves, the wrapper of
\* apply_action_bounds included; an exception raised by compute_action leaves
\* through both before either assigns or returns
compute_action_sampled(time, observation, observation_target, critic_result, actor_result) ==
    LET w0 == [World EXCEPT !.ctrl.observation_target = observation_target]
        is_time_for_new_sample == ClockCheckTime(w0.ctrl.clock, sampling_time, time)
        w1 == [w0 EXCEPT !.ctrl.clock = ClockAdvance(@, sampling_time, time)]
        is_time_for_critic_update == ClockCheckTime(w1.critic.clock, critic_period, time)
        w2 == [w1 EXCEPT !.critic.clock = ClockAdvance(@, critic_period, time)]
        is_critic_update == is_time_for_critic_update /\ ~cfg.is_fixed_critic_weights
        w3 == IF is_time_for_new_sample
              THEN compute_action(w2, observation, is_critic_update,
                                  observation_target, critic_result, actor_result)
              ELSE w2
        w4 == IF w3.error # "none" THEN w3 ELSE apply_action_bounds(w3, w3.actor.action)
    IN  [w |-> w4, returned |-> w4.ctrl.action,
         sampled |-> is_time_for_new_sample,
         is_critic_update |-> is_critic_update]

\* the instance's compute_action_sampled: the safe controller's bound method
\* when the controller was constructed with safe_only, the class's otherwise
self_compute_action_sampled_learning(time, observation, observation_target, critic_result, actor_result) ==
    compute_action_sampled(time, observation, observation_target, critic_result, actor_result)

self_compute_action_sampled(time, observation, observation_target, critic_result, actor_result) ==
    IF cfg.safe_only
    THEN SafeComputeActionSampled(World, time, observation)
    ELSE compute_action_sampled(time, observation, observation_target,
                                critic_result, actor_result)

\* the solvers are consulted only where the code calls them: the critic's in a
\* sample (of RLController: a sample with is_critic_update), the actor's after
\* an accepted critic (of RLController: in every sample); a caller that names
\* no setpoint leaves observation_target at its default []
ComputeActionSampled ==
    \E time \in now..Min(now + 1, cfg.time_final),
       observation_target \in IF cfg.setpoint = "given" THEN Targets ELSE {<<>>} :
        LET is_sample == IF cfg.safe_only
                         THEN ClockCheckTime(safe.clock, safe_sampling_time, time)
                         ELSE ClockCheckTime(ctrl.clock, sampling_time, time)
            learns == is_sample /\ ~cfg.safe_only
            is_critic_update == /\ ClockCheckTime(critic.clock, critic_period, time)
                                /\ ~cfg.is_fixed_critic_weights
            critic_runs == learns /\ (cfg.variant = "RL" => is_critic_update)
        IN  \E observation \in IF is_sample THEN Observations ELSE {0},
               critic_result \in IF critic_runs THEN Results ELSE {NoResult} :
             \E actor_result \in IF /\ learns
                                    /\ \/ cfg.variant = "RL"
                                       \/ critic_result.status = "accepted"
                                 THEN Results ELSE {NoResult} :
              \E r \in {self_compute_action_sampled(time, observation, observation_target,
                                                    critic_result, actor_result)} :
                /\ critic' = r.w.critic
                /\ actor' = r.w.actor
                /\ safe' = r.w.safe
                /\ ctrl' = r.w.ctrl
                /\ now' = time
                /\ hist' = [op |-> "compute_action_sampled",
                            sampled |-> r.sampled,
                            is_critic_update |-> r.is_critic_update,
                            observation |-> observation,
                            trace |-> r.w.trace,
                            returned |-> r.returned,
                            error |-> r.w.error,
                            minimizer |-> Converged]
                /\ UNCHANGED <<cfg, episode>>

\* the instance's compute_action called directly; modelled for a controller
\* constructed with safe_only, where it is the safe controller's bound method
ComputeAction ==
    /\ cfg.safe_only
    /\ \E observation \in Observations :
        \E w \in {SafeComputeAction(World, observation)} :
            /\ safe' = w.safe
            /\ critic' = w.critic
            /\ actor' = w.actor
            /\ ctrl' = w.ctrl
            /\ hist' = [op |-> "compute_action", sampled |-> FALSE,
                        is_critic_update |-> FALSE, observation |-> observation,
                        trace |-> w.trace, returned |-> w.safe.action,
                        error |-> w.error, minimizer |-> Converged]
            /\ UNCHANGED <<cfg, now, episode>>

\* CALFControllerExPost.collect_critic_stats: the certificate at
\* observation_last_good under the stored weights is appended to the log
collect_critic_stats(time) ==
    LET current_CALF == CriticCall(critic, critic.observation_last_good)
    IN  /\ critic' = [critic EXCEPT !.CALFs = Append(@, current_CALF)]
        /\ hist' = [hist EXCEPT !.op = "collect_critic_stats", !.sampled = FALSE,
                                !.trace = <<>>, !.returned = 0, !.error = "none"]
        /\ UNCHANGED <<cfg, actor, safe, ctrl, now, episode>>

CollectCriticStats ==
    /\ Len(critic.CALFs) < MaxLog
    /\ collect_critic_stats(now)

\* the buffers emptied as well
reset_clearing(w) ==
    [w EXCEPT !.ctrl.clock = ClockReset(@),
              !.critic.clock = ClockReset(@),
              !.actor.action_old = action_init,
              !.critic.observation_buffer = <<>>,
              !.critic.action_buffer = <<>>]

\* the weights put back to their construction-time values as well
reset_forgetting(w) ==
    [w EXCEPT !.ctrl.clock = ClockReset(@),
              !.critic.clock = ClockReset(@),
              !.actor.action_old = action_init,
              !.critic.model_weights = 0, !.critic.cache_weights = 0,
              !.critic.optimized_weights = 0,
              !.actor.model_weights = 0, !.actor.cache_weights = 0,
              !.actor.optimized_weights = 0]

\* RLController.reset
reset(w) ==
    [w EXCEPT !.ctrl.clock = ClockReset(@),
              !.critic.clock = ClockReset(@),
              !.actor.action_old = action_init]

\* the driver ends the first episode, calls reset() and starts again at
\* time_start
Reset ==
    /\ episode = "first"
    /\ \E w \in {reset(World)} :
            /\ critic' = w.critic
            /\ actor' = w.actor
            /\ safe' = w.safe
            /\ ctrl' = w.ctrl
            /\ hist' = [op |-> "reset", sampled |-> FALSE, is_critic_update |-> FALSE,
                        observation |-> 0, trace |-> w.trace, returned |-> 0,
                        error |-> w.error, minimizer |-> Converged]
    /\ now' = time_start
    /\ episode' = "second"
    /\ UNCHANGED cfg

\* the calls of a CLF controller that is driven on its own; the minimization,
\* where there is one, may end without convergence
CLFResults == IF cfg.safe_class = CLF THEN ThetaResults ELSE {Converged}

\* the logs of the analytic controller are kept within MaxLog entries
LogsHaveRoom == cfg.safe_class = NICLF => Len(safe.Ls) < MaxLog

SafeControllerComputeActionSampled ==
    \E time \in now..Min(now + 1, cfg.time_final) :
        LET is_sample == ClockCheckTime(safe.clock, safe_sampling_time, time)
        IN  /\ is_sample => LogsHaveRoom
            /\ \E observation \in IF is_sample THEN Observations ELSE {0},
                   result \in IF is_sample THEN CLFResults ELSE {Converged} :
                 \E r \in {CLFComputeActionSampled(World, time, observation, result)} :
                    /\ safe' = r.w.safe
                    /\ now' = time
                    /\ hist' = [op |-> "compute_action_sampled", sampled |-> r.sampled,
                                is_critic_update |-> FALSE, observation |-> observation,
                                trace |-> r.w.trace, returned |-> r.returned,
                                error |-> r.w.error, minimizer |-> result]
                    /\ UNCHANGED <<cfg, critic, actor, ctrl, episode>>

SafeControllerComputeAction ==
    /\ LogsHaveRoom
    /\ \E observation \in Observations, result \in CLFResults :
        \E w \in {CLFComputeAction(World, observation, result)} :
            /\ safe' = w.safe
            /\ hist' = [op |-> "compute_action", sampled |-> FALSE,
                        is_critic_update |-> FALSE, observation |-> observation,
                        trace |-> w.trace, returned |-> w.safe.action,
                        error |-> w.error, minimizer |-> result]
            /\ UNCHANGED <<cfg, critic, actor, ctrl, now, episode>>

SafeControllerComputeLF ==
    /\ LogsHaveRoom
    /\ \E observation \in Observations, result \in CLFResults :
        \E w \in {CLFComputeLF(World, observation, result)} :
            /\ safe' = w.safe
            /\ hist' = [op |-> "compute_LF", sampled |-> FALSE,
                        is_critic_update |-> FALSE, observation |-> observation,
                        trace |-> w.trace,
                        returned |-> IF cfg.safe_class = CLF
                                     THEN Fc(observation, minimizer_theta(result))
                                     ELSE LF_value(observation),
                        error |-> w.error, minimizer |-> result]
            /\ UNCHANGED <<cfg, critic, actor, ctrl, now, episode>>

\* the driver ends the first episode of a CLF controller driven on its own,
\* calls its reset() and starts again at time_start
SafeControllerReset ==
    /\ episode = "first"
    /\ \E w \in {CLFReset(World)} :
            /\ safe' = w.safe
            /\ hist' = [op |-> "reset", sampled |-> FALSE, is_critic_update |-> FALSE,
                        observation |-> 0, trace |-> w.trace, returned |-> 0,
                        error |-> w.error, minimizer |-> Converged]
    /\ now' = time_start
    /\ episode' = "second"
    /\ UNCHANGED <<cfg, critic, actor, ctrl>>

\* compute_action evaluates _kappa, which evaluates _zeta
EvaluateZeta ==
    /\ hist.op = "init"
    /\ hist' = [hist EXCEPT !.op = "_zeta",
                            !.zeta = zeta(hist.observation, hist.theta)]
    /\ UNCHANGED <<cfg, critic, actor, safe, ctrl, now, episode>>

Next == ComputeActionSampled \/ CollectCriticStats

Spec == Init /\ [][Next]_vars

SpecBounds == InitBounds /\ [][Next]_vars

NextSafeOnly == ComputeActionSampled \/ ComputeAction \/ CollectCriticStats

SpecSafeOnly == InitSafeOnly /\ [][NextSafeOnly]_vars

NextReset == ComputeActionSampled \/ Reset

SpecReset == InitReset /\ [][NextReset]_vars

NextCLF ==
    \/ SafeControllerComputeActionSampled
    \/ SafeControllerComputeAction
    \/ SafeControllerComputeLF

SpecCLF == InitCLF /\ [][NextCLF]_vars

NextCLFReset ==
    \/ SafeControllerComputeActionSampled
    \/ SafeControllerComputeAction
    \/ SafeControllerComputeLF
    \/ SafeControllerReset

SpecCLFReset == InitCLF /\ [][NextCLFReset]_vars

SpecZeta == InitZeta /\ [][EvaluateZeta]_vars

SpecRL == InitRL /\ [][ComputeActionSampled]_vars

SpecSetpoint == InitSetpoint /\ [][ComputeActionSampled]_vars

---------------------------------------------------------------------------
(* What the latest call did, read from hist *)

\* the latest call was compute_action_sampled at a sampling instant
Sampled == hist.op = "compute_action_sampled" /\ hist.sampled

Trace == hist.trace

\* positions of the calls of op in the latest sample
At(op) == {i \in DOMAIN Trace : Trace[i].op = op}

Count(op) == Cardinality(At(op))

\* the critic status was read as "accepted" in the latest sample
CriticAccepted ==
    \E i \in At("read critic.weights_acceptance_status") : Trace[i].a = 1

\* the actor status was read as "accepted" in the latest sample
ActorAccepted ==
    \E i \in At("read actor.weights_acceptance_status") : Trace[i].a = 1

BothAccepted == CriticAccepted /\ ActorAccepted

\* what actor.safe_controller.compute_action returns for the sample's observation
FallbackAction == SafeActionFor(Diff(hist.observation, ctrl.observation_target))

---------------------------------------------------------------------------
---------------------------------------------------------------------------
\* C2 as stated: in a sample in which the critic test or the actor test fails,
\* the cached weights of the critic model and of the actor model are what they
\* were before the sample.
C2_CachedWeightsUnchanged ==
    [][(Sampled' /\ ~BothAccepted') =>
          /\ critic'.cache_weights = critic.cache_weights
          /\ actor'.cache_weights = actor.cache_weights]_vars

\* C2 as amended: in such a sample no candidate is committed: the critic's
\* cached weights are what they were before the sample, neither
\* critic.cache_weights nor actor.update_and_cache_weights is called, and the
\* actor model's weights and cached weights are the sample's fallback action,
\* written by invoke_safe_action.
C2_CandidatesDiscarded ==
    [][(Sampled' /\ ~BothAccepted') =>
          /\ critic'.cache_weights = critic.cache_weights
          /\ critic'.model_weights = critic.cache_weights
          /\ Count("critic.cache_weights")' = 0
          /\ Count("actor.update_and_cache_weights")' = 0
          /\ actor'.cache_weights = FallbackAction'
          /\ actor'.model_weights = FallbackAction']_vars

\* a sample with accepted critic and rejected actor whose candidates differ from
\* the weights in effect, and whose fallback action differs from the actor's
\* candidate
C2_Witness ==
    /\ Sampled
    /\ CriticAccepted
    /\ ~ActorAccepted
    /\ critic.optimized_weights # critic.cache_weights
    /\ actor.optimized_weights # actor.cache_weights
    /\ actor.cache_weights = FallbackAction

---------------------------------------------------------------------------
\* C3: within one sample critic.r_prev is increased by the fallback running
\* cost at most once, also when invoke_safe_action is called twice.
C3_RPrevIncreasedOnce ==
    [][(Sampled' /\ Count("critic.r_prev=")' = 0) =>
          critic'.r_prev <= critic.r_prev
                            + RunningObjective(hist'.observation, FallbackAction')]_vars

---------------------------------------------------------------------------
\* C4: every call of invoke_safe_action performs, in this order,
\* critic.restore_weights, actor.safe_controller.compute_action on the
\* observation minus the controller's observation_target, actor.set_action with
\* the action that call returned, and the update of critic.r_prev with
\* running_objective(observation, that action).
C4_FallbackProtocol ==
    Sampled =>
        \A i \in At("invoke_safe_action") :
            /\ i + 5 <= Len(Trace)
            /\ Trace[i].a = hist.observation
            /\ Trace[i + 1].op = "critic.restore_weights"
            /\ Trace[i + 2].op = "safe_controller.compute_action"
            /\ Trace[i + 2].a = Diff(hist.observation, ctrl.observation_target)
            /\ Trace[i + 3].op = "actor.set_action"
            /\ Trace[i + 3].a = Trace[i + 2].b
            /\ Trace[i + 5].op = "critic.r_prev+="
            /\ Trace[i + 5].a = hist.observation
            /\ Trace[i + 5].b = Trace[i + 2].b

\* a sample that calls invoke_safe_action twice with a non-zero setpoint
C4_Witness ==
    /\ Sampled
    /\ Count("invoke_safe_action") = 2
    /\ ctrl.observation_target # <<0>>
    /\ hist.observation # 0

---------------------------------------------------------------------------
\* position of the first call of op in the latest sample (0 when there is none)
First(op) == IF At(op) = {} THEN 0 ELSE CHOOSE i \in At(op) : \A j \in At(op) : i <= j

\* C5: in every sample of either orchestrator critic.update_buffers comes
\* first, then critic.optimize_weights, then the read of the critic status;
\* actor.optimize_weights is called only after the critic status was read as
\* "accepted", after critic.update_weights and after exactly one
\* invoke_safe_action; actor.update_action only after
\* actor.update_and_cache_weights; critic.cache_weights only if the actor status
\* was read as "accepted".
C5_StepOrder ==
    Sampled =>
        /\ Count("critic.update_buffers") = 1
        /\ Count("critic.optimize_weights") = 1
        /\ Count("read critic.weights_acceptance_status") = 1
        /\ First("critic.update_buffers") = 1
        /\ First("critic.update_buffers") < First("critic.optimize_weights")
        /\ First("critic.optimize_weights") < First("read critic.weights_acceptance_status")
        /\ At("actor.optimize_weights") # {} =>
              /\ CriticAccepted
              /\ First("read critic.weights_acceptance_status") < First("critic.update_weights")
              /\ First("critic.update_weights") < First("invoke_safe_action")
              /\ First("invoke_safe_action") < First("actor.optimize_weights")
              /\ Cardinality({i \in At("invoke_safe_action") :
                                 i < First("actor.optimize_weights")}) = 1
        /\ At("actor.update_action") # {} =>
              /\ At("actor.update_and_cache_weights") # {}
              /\ First("actor.optimize_weights") < First("actor.update_and_cache_weights")
              /\ First("actor.update_and_cache_weights") < First("actor.update_action")
        /\ At("critic.cache_weights") # {} =>
              /\ ActorAccepted
              /\ First("read actor.weights_acceptance_status") < First("critic.cache_weights")

\* a Predictive sample that runs every step: both tests accepted
C5_Witness ==
    /\ Sampled
    /\ cfg.variant = "Predictive"
    /\ BothAccepted
    /\ Count("actor.update_action") = 1
    /\ Count("critic.cache_weights") = 1

---------------------------------------------------------------------------
\* C6: every sample of CALFControllerExPost.compute_action calls
\* critic.optimize_weights exactly once, whatever is_critic_update and
\* is_fixed_critic_weights are, actor.optimize_weights at most once and
\* invoke_safe_action once or twice.
C6_BoundedCalls ==
    (Sampled /\ cfg.variant = "ExPost") =>
        /\ Count("critic.optimize_weights") = 1
        /\ Count("actor.optimize_weights") <= 1
        /\ Count("invoke_safe_action") \in {1, 2}

\* an ExPost sample with fixed critic weights, is_critic_update false, that
\* still optimizes the critic and calls the fallback twice
C6_Witness ==
    /\ Sampled
    /\ cfg.variant = "ExPost"
    /\ cfg.is_fixed_critic_weights
    /\ ~hist.is_critic_update
    /\ Count("critic.optimize_weights") = 1
    /\ Count("invoke_safe_action") = 2

---------------------------------------------------------------------------
\* C7: after an ExPost sample in which both tests are accepted,
\* critic.observation_last_good is the sample's observation, the critic's cached
\* weights are the sample's candidate, the actor's action is the learned action
\* and critic.r_prev is exactly running_objective(observation, learned action).
C7_AcceptedSample ==
    (Sampled /\ cfg.variant = "ExPost" /\ BothAccepted) =>
        /\ critic.observation_last_good = hist.observation
        /\ critic.cache_weights = critic.optimized_weights
        /\ \A i \in At("critic.optimize_weights") : critic.cache_weights = Trace[i].a
        /\ actor.action_source = "update_action"
        /\ \A i \in At("actor.optimize_weights") :
              actor.action = ActorModel(Trace[i].a, hist.observation)
        /\ critic.r_prev = RunningObjective(hist.observation, actor.action)

\* a fully accepted ExPost sample whose learned action and the fallback action
\* have different running costs, after an earlier sample
C7_Witness ==
    /\ Sampled
    /\ cfg.variant = "ExPost"
    /\ BothAccepted
    /\ now = MaxTime
    /\ RunningObjective(hist.observation, FallbackAction) # 0
    /\ actor.action # FallbackAction
    /\ critic.r_prev = RunningObjective(hist.observation, actor.action)

---------------------------------------------------------------------------
\* the head of a Predictive sample, with the backfilled certificate evaluated
\* at point under the weights stored when the sample began
PredictiveHead(point) ==
    (Sampled' /\ cfg.variant = "Predictive") =>
        IF actor.weights_acceptance_status = "accepted"
        THEN /\ Count("critic.weights_acceptance_status=rejected")' = 1
             /\ Count("actor.weights_acceptance_status=rejected")' = 1
             /\ First("critic.weights_acceptance_status=rejected")'
                    < First("critic.optimize_weights")'
             /\ First("actor.weights_acceptance_status=rejected")'
                    < First("critic.optimize_weights")'
             /\ critic'.observation_last_good = hist'.observation
             /\ Len(critic'.CALFs) = Len(critic.CALFs)
             /\ \A i \in 1..(Len(critic.CALFs) - 1) : critic'.CALFs[i] = critic.CALFs[i]
             /\ critic.CALFs # <<>> =>
                   critic'.CALFs[Len(critic.CALFs)] = CriticModel(critic.cache_weights, point)
        ELSE /\ Count("critic.weights_acceptance_status=rejected")' = 0
             /\ Count("actor.weights_acceptance_status=rejected")' = 0
             /\ critic'.observation_last_good = critic.observation_last_good
             /\ critic'.CALFs = critic.CALFs

\* C8 as stated: a Predictive sample that starts with the actor status
\* "accepted" sets both statuses to "rejected" and observation_last_good to the
\* observation before critic.optimize_weights, and overwrites the last entry of
\* the CALF log with the stored-weights value at the observation; the log's
\* length and earlier entries are unchanged, nothing is written to an empty log;
\* a sample that does not start so does none of this.
C8_BackfillAtObservation == [][PredictiveHead(hist'.observation)]_vars

\* C8 as amended: the same, with the overwritten entry being the stored-weights
\* value at the observation minus the sample's observation_target.
C8_BackfillAtOffset ==
    [][PredictiveHead(Diff(hist'.observation, ctrl'.observation_target))]_vars

\* a Predictive sample that overwrote the last of two log entries, with a
\* setpoint away from the origin
C8_Witness ==
    /\ Sampled
    /\ cfg.variant = "Predictive"
    /\ Count("critic.CALFs[-1]=") = 1
    /\ Len(critic.CALFs) = 2
    /\ critic.CALFs[1] # critic.CALFs[2]
    /\ ctrl.observation_target # <<0>>
    /\ critic.observation_last_good = hist.observation

---------------------------------------------------------------------------
---------------------------------------------------------------------------
\* C11 as stated: every sample of either orchestrator appends exactly one
\* entry to the CALF log, whether its candidates were accepted or rejected.
C11_LogGrowsEverySample ==
    [][Sampled' => Len(critic'.CALFs) = Len(critic.CALFs) + 1]_vars

---------------------------------------------------------------------------
\* C12: zero-order hold: when compute_action_sampled is called twice in a row
\* and the second call is not at a sampling instant of the controller clock,
\* the second call returns exactly the action the first call returned,
\* whatever observation and observation_target it is given.
C12_ZeroOrderHold ==
    [][(/\ hist.op = "compute_action_sampled"
        /\ hist'.op = "compute_action_sampled"
        /\ ~hist'.sampled) =>
          ctrl'.action = ctrl.action]_vars

\* a held call that returns a non-zero action computed by an earlier sample
\* and is given another setpoint than that sample was
C12_Witness ==
    /\ hist.op = "compute_action_sampled"
    /\ ~hist.sampled
    /\ actor.action_source # "init"
    /\ ctrl.action # action_init
    /\ ctrl.observation_target # actor.observation_target

---------------------------------------------------------------------------
\* what the critic and the actor have learned and decided: buffers, weights
\* (working, cached, candidate), statuses, baseline, last good observation,
\* current action
Learned(c, a) ==
    <<c.observation_buffer, c.action_buffer,
      c.model_weights, c.cache_weights, c.optimized_weights,
      a.model_weights, a.cache_weights, a.optimized_weights,
      c.weights_acceptance_status, a.weights_acceptance_status,
      c.r_prev, c.observation_last_good, a.action>>

\* C13: a call of compute_action_sampled at a sampling instant of the
\* controller clock runs exactly one orchestration cycle, and a call at any
\* other time runs none and leaves the critic buffers, the actor and critic
\* weights, both acceptance statuses, critic.r_prev,
\* critic.observation_last_good and the actor's current action unchanged.
C13_OneCycleWhenSampling ==
    [][hist'.op = "compute_action_sampled" =>
          /\ hist'.sampled = ClockCheckTime(ctrl.clock, sampling_time, now')
          /\ hist'.sampled =>
                /\ Count("critic.update_buffers")' = 1
                /\ Count("critic.optimize_weights")' = 1
                /\ First("critic.update_buffers")' = 1
          /\ ~hist'.sampled =>
                /\ hist'.trace = <<>>
                /\ Learned(critic', actor') = Learned(critic, actor)]_vars

\* a call between two sampling instants at which the critic's clock does fire,
\* made after a sample has filled the buffers and set a non-zero action
C13_Witness ==
    /\ hist.op = "compute_action_sampled"
    /\ ~hist.sampled
    /\ critic.clock = now
    /\ critic.clock # ctrl.clock
    /\ critic.observation_buffer # <<>>
    /\ actor.action # action_init

---------------------------------------------------------------------------
\* C14: with action bounds configured on the controller, every value that
\* compute_action_sampled returns lies within [low, high], at sampling
\* instants and between them, for learned and for fallback actions.
C14_BoundContainment ==
    hist.op = "compute_action_sampled" =>
        /\ CtrlLow <= ctrl.action
        /\ ctrl.action <= CtrlHigh

\* a held call after a sample whose fallback action lies below the controller's
\* lower bound: the value returned is the bound
C14_Witness ==
    /\ hist.op = "compute_action_sampled"
    /\ ~hist.sampled
    /\ actor.action_source = "set_action"
    /\ actor.action < CtrlLow
    /\ ctrl.action = CtrlLow

---------------------------------------------------------------------------
\* C15 as stated: a controller constructed without action bounds (the default
\* None, or the empty list) completes every compute_action_sampled call
\* without error and returns the actor's action unclipped.
C15_NoBoundsValid ==
    (hist.op = "compute_action_sampled" /\ cfg.action_bounds \in {"None", "empty"}) =>
        /\ hist.error = "none"
        /\ hist.returned = actor.action

---------------------------------------------------------------------------
\* C16: a controller constructed with safe_only=True never learns: in every
\* call of compute_action_sampled or compute_action neither optimizer (nor
\* any other actor or critic method) is called, the critic's and the actor's
\* buffers, weights, statuses, r_prev and action stay as constructed, the
\* value returned is the safe controller's (its action for the call's
\* observation at one of its own sampling instants or in a direct call, its
\* held action_old otherwise), and the mode never changes.
C16_SafeOnlyBypassesLearning ==
    [][cfg.safe_only =>
          /\ cfg' = cfg
          /\ Learned(critic', actor') = Learned(critic, actor)
          /\ hist'.op \in {"compute_action_sampled", "compute_action"} =>
                /\ \A i \in DOMAIN hist'.trace :
                       hist'.trace[i].op = "safe_controller.compute_action"
                /\ hist'.returned =
                      IF hist'.op = "compute_action" \/ hist'.sampled
                      THEN SafeActionFor(hist'.observation)
                      ELSE safe.action_old]_vars

\* a safe-only controller whose safe controller has sampled a non-zero action
\* and then holds it, with nothing learned
C16_Witness ==
    /\ cfg.safe_only
    /\ hist.op = "compute_action_sampled"
    /\ ~hist.sampled
    /\ hist.returned # 0
    /\ safe.clock # time_start
    /\ critic.observation_buffer = <<>>

---------------------------------------------------------------------------
\* C17 as stated: after reset() a replay from time_start gives the actions a
\* freshly constructed controller gives; in particular a call made before the
\* first sampling instant of an episode returns what a fresh controller
\* returns there, the actor's initial action within the bounds.
C17_ReplayAsFresh ==
    (hist.op = "compute_action_sampled" /\ ~hist.sampled /\ ctrl.clock = time_start) =>
        hist.returned = Clip(action_init, CtrlLow, CtrlHigh)

---------------------------------------------------------------------------
\* C18 as stated: reset() rewinds the controller's clock and the critic's
\* clock to time_start and leaves the actor's current action equal to its
\* initial action.
C18_ResetRewindsAndReinitialises ==
    [][hist'.op = "reset" =>
          /\ ctrl'.clock = time_start
          /\ critic'.clock = time_start
          /\ actor'.action = action_init]_vars

---------------------------------------------------------------------------
\* C19 as stated: reset() leaves the critic's observation and action buffers
\* empty or holding only the initial (zero) entries.
C19_BuffersCleared ==
    [][hist'.op = "reset" =>
          /\ \A i \in DOMAIN critic'.observation_buffer :
                 critic'.observation_buffer[i] = 0
          /\ \A i \in DOMAIN critic'.action_buffer :
                 critic'.action_buffer[i] = action_init]_vars

\* the first sample of the episode that follows a reset()
FirstSampleAfterReset ==
    episode = "second" /\ ctrl.clock = time_start /\ Sampled'

\* C19 as amended: reset() leaves both buffers exactly as the previous episode
\* left them, and the first sample after it pushes onto them the pair of its
\* observation and the action the actor held at the end of that episode.
C19_BuffersKept ==
    [][/\ hist'.op = "reset" =>
             /\ critic'.observation_buffer = critic.observation_buffer
             /\ critic'.action_buffer = critic.action_buffer
       /\ FirstSampleAfterReset =>
             /\ critic'.observation_buffer =
                    Push(critic.observation_buffer, hist'.observation)
             /\ critic'.action_buffer = Push(critic.action_buffer, actor.action)]_vars

\* a second episode whose first sample has pushed an action that was computed
\* in the first episode
C19_Witness ==
    /\ episode = "second"
    /\ Sampled
    /\ critic.action_buffer # <<>>
    /\ critic.action_buffer[Len(critic.action_buffer)] # action_init

---------------------------------------------------------------------------
\* the weight slots of the critic and of the actor: working, cached, candidate
AllWeights(c, a) ==
    <<c.model_weights, c.cache_weights, c.optimized_weights,
      a.model_weights, a.cache_weights, a.optimized_weights>>

\* C20: reset() leaves every weight slot of the actor and of the critic as it
\* was before the call.
C20_ResetKeepsWeights ==
    [][hist'.op = "reset" => AllWeights(critic', actor') = AllWeights(critic, actor)]_vars

\* a reset() made after both the critic and the actor have committed
\* non-initial weights
C20_Witness ==
    /\ hist.op = "reset"
    /\ critic.cache_weights # 0
    /\ actor.cache_weights # 0
    /\ ctrl.clock = time_start

---------------------------------------------------------------------------
\* C21: every call of Controller.compute_action_sampled consults the
\* controller's clock and the critic's clock once each, whatever the other
\* clock replies: each clock moves to the call's time exactly when its own
\* period has elapsed, and the two replies are what the call reports.
C21_ClocksCheckedIndependently ==
    [][(hist'.op = "compute_action_sampled" /\ ~cfg.safe_only) =>
          /\ ctrl'.clock = ClockAdvance(ctrl.clock, sampling_time, now')
          /\ critic'.clock = ClockAdvance(critic.clock, critic_period, now')
          /\ hist'.sampled = ClockCheckTime(ctrl.clock, sampling_time, now')
          /\ hist'.is_critic_update =
                (ClockCheckTime(critic.clock, critic_period, now')
                 /\ ~cfg.is_fixed_critic_weights)]_vars

\* a sampling instant at which the critic's clock stays where an earlier call,
\* itself no sampling instant, had moved it
C21_Witness ==
    /\ Sampled
    /\ ctrl.clock = now
    /\ critic.clock # time_start
    /\ critic.clock < now
    /\ critic.clock % sampling_time # 0

---------------------------------------------------------------------------
\* C22 as stated: when the minimization over theta of
\* Controller3WRobotDisassembledCLF ends without convergence, compute_action
\* does not fail and returns the previously held action, leaving action_old
\* as it was (the diagnostic the claim asks for has no counterpart in the
\* code and is not part of the formula).
C22_HoldOnNonConvergence ==
    [][(/\ cfg.safe_class = CLF
        /\ hist'.op = "compute_action"
        /\ ~hist'.minimizer.success) =>
          /\ hist'.error = "none"
          /\ safe'.action_old = safe.action_old
          /\ hist'.returned = safe.action_old]_vars

---------------------------------------------------------------------------
\* C24 as stated: compute_LF of either CLF controller changes nothing of the
\* controller: action, action_old, clock and the logs Ls and times.
C24_ComputeLFChangesNothing ==
    [][hist'.op = "compute_LF" => safe' = safe]_vars

\* C24 as amended: compute_LF of either controller leaves action, action_old,
\* the clock and times as they were; Controller3WRobotDisassembledCLF has no
\* log to change, and Controller3WRobotNIDisassembledCLF appends exactly the
\* returned certificate to Ls.
C24_ComputeLFOnlyLogs ==
    [][hist'.op = "compute_LF" =>
          /\ safe'.action = safe.action
          /\ safe'.action_old = safe.action_old
          /\ safe'.clock = safe.clock
          /\ safe'.times = safe.times
          /\ safe'.Ls = IF cfg.safe_class = CLF
                        THEN safe.Ls
                        ELSE Append(safe.Ls, hist'.returned)]_vars

\* the analytic controller after a sample and a later compute_LF call: Ls has
\* one entry more than times, and the sampled action is still held
C24_Witness ==
    /\ cfg.safe_class = NICLF
    /\ hist.op = "compute_LF"
    /\ Len(safe.times) = 1
    /\ Len(safe.Ls) = 2
    /\ safe.action_old # 0

---------------------------------------------------------------------------
\* C23 as stated: at every observation whose planar position is the origin,
\* at any orientation, the gradient of either CLF controller returns its
\* limiting-case branch and evaluates no division by zero; at every other
\* observation the limiting-case branch is not returned.
C23_SingularityGuard ==
    hist.op = "_zeta" =>
        IF hist.observation.x = 0 /\ hist.observation.y = 0
        THEN /\ hist.zeta.branch = "nablaF"
             /\ ~hist.zeta.division_by_zero
        ELSE hist.zeta.branch # "nablaF"

---------------------------------------------------------------------------
\* C25 as stated: a sample whose caller left observation_target at its empty
\* default ends in an error, and before the error neither actor.update_target
\* nor critic.update_target was called with the empty value.
C25_MissingSetpointRejected ==
    (Sampled /\ ctrl.observation_target = <<>>) =>
        /\ hist.error # "none"
        /\ Count("actor.update_target") = 0
        /\ Count("critic.update_target") = 0

---------------------------------------------------------------------------
\* C27 as stated: after every sample the actor's current action, which the
\* next sample records into the critic's buffer, is the clipped action the
\* call returned, for learned and for fallback actions alike.
C27_ClipThenStore ==
    (Sampled /\ hist.error = "none") => actor.action = hist.returned

---------------------------------------------------------------------------
\* C28 as stated: in safe-only mode every action compute_action_sampled
\* returns lies within the action_bounds of the CALF controller, and the
\* returned action changes only in a call that is a sampling instant of the
\* CALF controller's own clock (a boundary of its sampling_time, which that
\* clock then remembers).
C28_OwnConfigurationGoverns ==
    [][(cfg.safe_only /\ hist'.op = "compute_action_sampled") =>
          /\ CtrlLow <= hist'.returned
          /\ hist'.returned <= CtrlHigh
          /\ hist'.returned # hist.returned =>
                /\ ClockCheckTime(ctrl.clock, sampling_time, now')
                /\ ctrl'.clock = now']_vars

---------------------------------------------------------------------------
\* C29: in an RLController driven through compute_action_sampled, a call
\* optimizes the critic and caches its weights (once each) exactly when the
\* controller's clock and the critic's clock both report a boundary in that
\* call and is_fixed_critic_weights is false; a boundary of the critic's clock
\* is consumed by the call that crosses it, sampling instant or not; and with
\* is_fixed_critic_weights true the critic's weights never change.
C29_CriticGate ==
    [][(cfg.variant = "RL" /\ hist'.op = "compute_action_sampled") =>
          LET both == /\ ClockCheckTime(ctrl.clock, sampling_time, now')
                      /\ ClockCheckTime(critic.clock, critic_period, now')
                      /\ ~cfg.is_fixed_critic_weights
          IN  /\ Count("critic.optimize_weights")' = (IF both THEN 1 ELSE 0)
              /\ Count("critic.update_and_cache_weights")' = (IF both THEN 1 ELSE 0)
              /\ ~both =>
                    /\ critic'.model_weights = critic.model_weights
                    /\ critic'.cache_weights = critic.cache_weights
                    /\ critic'.optimized_weights = critic.optimized_weights
              /\ ClockCheckTime(critic.clock, critic_period, now') => critic'.clock = now'
              /\ ~ClockCheckTime(critic.clock, critic_period, now') =>
                    critic'.clock = critic.clock]_vars

\* a sample in which both clocks fired and the critic committed a new
\* candidate, after an earlier boundary of the critic's clock was consumed
\* between two sampling instants
C29_Witness ==
    /\ cfg.variant = "RL"
    /\ Sampled
    /\ hist.is_critic_update
    /\ now = 2 * critic_period
    /\ critic.clock = now
    /\ Count("critic.update_and_cache_weights") = 1
    /\ critic.cache_weights # 0

---------------------------------------------------------------------------
\* C30: every sample of RLController.compute_action first records into the
\* critic's buffer the observation with the action the actor held from the
\* previous sample, then hands the observation to the actor, completes the
\* critic step (only when is_critic_update), and then runs, once each and in
\* this order, actor.optimize_weights, actor.update_and_cache_weights and
\* actor.update_action; the actor's action after the sample is the one its
\* model gives with the candidate committed in that sample.
C30_RLStepOrder ==
    [][(cfg.variant = "RL" /\ hist'.op = "compute_action_sampled" /\ hist'.sampled) =>
          /\ hist'.trace[1] = [op |-> "critic.update_buffers",
                               a |-> hist'.observation, b |-> actor.action]
          /\ hist'.trace[2] = [op |-> "actor.receive_observation",
                               a |-> hist'.observation, b |-> 0]
          /\ Count("critic.update_buffers")' = 1
          /\ Count("actor.receive_observation")' = 1
          /\ Count("actor.optimize_weights")' = 1
          /\ Count("actor.update_and_cache_weights")' = 1
          /\ Count("actor.update_action")' = 1
          /\ Count("critic.optimize_weights")' = (IF hist'.is_critic_update THEN 1 ELSE 0)
          /\ hist'.is_critic_update =>
                /\ First("actor.receive_observation")' < First("critic.optimize_weights")'
                /\ First("critic.optimize_weights")' < First("critic.update_and_cache_weights")'
                /\ First("critic.update_and_cache_weights")' < First("actor.optimize_weights")'
          /\ First("actor.optimize_weights")' < First("actor.update_and_cache_weights")'
          /\ First("actor.update_and_cache_weights")' < First("actor.update_action")'
          /\ actor'.cache_weights = hist'.trace[First("actor.optimize_weights")'].a
          /\ actor'.action = ActorModel(actor'.cache_weights, hist'.observation)]_vars

\* a sample without a critic step whose actor committed a candidate different
\* from the one it held and emitted the action that candidate gives
C30_Witness ==
    /\ cfg.variant = "RL"
    /\ Sampled
    /\ ~hist.is_critic_update
    /\ Count("actor.update_action") = 1
    /\ critic.action_buffer # <<>>
    /\ critic.action_buffer[Len(critic.action_buffer)] # actor.action
    /\ actor.action = ActorModel(actor.cache_weights, hist.observation)

---------------------------------------------------------------------------
\* C31: in CALFControllerExPost critic.observation_last_good is changed only
\* by a sample in which the critic and the actor were both accepted, and such
\* a sample leaves it at the sample's observation; every other call (a sample
\* ending on the fallback path, a call between sampling instants, the
\* statistics collector) leaves it as it was.
C31_LastGoodOnlyWhenAccepted ==
    [][cfg.variant = "ExPost" =>
          IF hist'.op = "compute_action_sampled" /\ hist'.sampled /\ BothAccepted'
          THEN critic'.observation_last_good = hist'.observation
          ELSE critic'.observation_last_good = critic.observation_last_good]_vars

\* a sample that ended on the fallback path at an observation different from
\* the one an earlier, fully accepted sample had marked as good
C31_Witness ==
    /\ cfg.variant = "ExPost"
    /\ Sampled
    /\ ~BothAccepted
    /\ At("invoke_safe_action") # {}
    /\ critic.observation_last_good # 0
    /\ hist.observation # critic.observation_last_good

---------------------------------------------------------------------------
\* C33: at the end of every sample of CALFControllerPredictive, if the actor's
\* status is "accepted" then the critic's status is "accepted", the actor was
\* optimized in that sample and the actor's action is the learned action
\* (written by actor.update_action from that sample's candidate); hence a
\* sample that ends on the fallback action leaves the actor's status other
\* than "accepted".
C33_AcceptedMeansLearned ==
    (Sampled /\ cfg.variant = "Predictive") =>
        /\ actor.weights_acceptance_status = "accepted" =>
              /\ critic.weights_acceptance_status = "accepted"
              /\ Count("actor.optimize_weights") = 1
              /\ actor.action_source = "update_action"
              /\ \A i \in At("actor.optimize_weights") :
                    actor.action = ActorModel(Trace[i].a, hist.observation)
        /\ actor.action_source = "set_action" =>
              actor.weights_acceptance_status # "accepted"

\* a Predictive sample that ended on the fallback action because the critic
\* was rejected, right after a fully accepted sample whose statuses the head
\* of this sample took back
C33_Witness ==
    /\ cfg.variant = "Predictive"
    /\ Sampled
    /\ Count("actor.weights_acceptance_status=rejected") = 1
    /\ ~CriticAccepted
    /\ actor.action_source = "set_action"
    /\ actor.weights_acceptance_status = "rejected"

---------------------------------------------------------------------------
\* C34: in CALFControllerPredictive critic.r_prev is only ever incremented:
\* a sample adds running_objective(observation, fallback action) once per
\* invoke_safe_action call it makes (two calls when the critic is accepted and
\* the actor rejected, one call otherwise, a fully accepted sample included),
\* and every other call, reset() included, leaves it as it was.
C34_RPrevOnlyIncremented ==
    [][cfg.variant = "Predictive" =>
          IF hist'.op = "compute_action_sampled" /\ hist'.sampled
          THEN /\ Count("invoke_safe_action")' =
                     (IF CriticAccepted' /\ ~ActorAccepted' THEN 2 ELSE 1)
               /\ Count("critic.r_prev+=")' = Count("invoke_safe_action")'
               /\ critic'.r_prev =
                     critic.r_prev + Count("invoke_safe_action")' *
                                       RunningObjective(hist'.observation, FallbackAction')
          ELSE critic'.r_prev = critic.r_prev]_vars

\* a fully accepted Predictive sample of the second episode whose baseline
\* still carries the fallback costs accumulated before reset()
C34_Witness ==
    /\ cfg.variant = "Predictive"
    /\ episode = "second"
    /\ Sampled
    /\ BothAccepted
    /\ RunningObjective(hist.observation, FallbackAction) > 0
    /\ critic.r_prev > RunningObjective(hist.observation, FallbackAction)

---------------------------------------------------------------------------
\* C32 as stated: reset() of either CLF controller leaves it as a freshly
\* constructed one, so that the replayed episode samples at the instants and
\* returns the actions of a fresh controller: the Clock is back at
\* time_start, the held action is zero, and the logs Ls and times of the
\* previous episode are gone.
C32_CLFResetAsFresh ==
    hist.op = "reset" =>
        /\ safe.clock = time_start
        /\ safe.action_old = 0
        /\ safe.Ls = <<>>
        /\ safe.times = <<>>

====
